---- MODULE Spec2Model ----
(***************************************************************************)
(* Retrieval-and-caching core of server_py: RAGRetriever (rag.py) over     *)
(* VectorStore.get_unique_resources (vector_store.py).                     *)
(*                                                                         *)
(* Strings are sequences of one-character strings, so that formatting and  *)
(* alphabetical sorting are computed rather than assumed.  Distances and   *)
(* relevance scores are fixed-point numbers in tenths.  Time is counted in *)
(* half hours.                                                             *)
(***************************************************************************)
EXTENDS Integers, Sequences, FiniteSets, TLC

\* ------------------------------------------------------------------ bounds
MaxChunks == 3
MaxTime == 2
MaxCalls == 3
MaxCats == 3
MaxGets == 4

\* ------------------------------------------------------- program constants
\* relevance_score = 1 - distance, in tenths
One == 10
\* timedelta(hours=1), in half hours
cache_ttl == 2
\* the two weakest categories: sorted(...)[:2]
Weakest == 2
\* top_k=3 of every fan-out query
QueryTopK == 3

\* ------------------------------------------------------------ sequences
Take(s, n) == IF n >= Len(s) THEN s ELSE SubSeq(s, 1, n)

\* Python's s[:n]: a negative n counts from the end
Slice(s, n) == IF n >= 0 THEN Take(s, n) ELSE Take(s, IF Len(s) + n > 0 THEN Len(s) + n ELSE 0)

Range(s) == {s[i] : i \in DOMAIN s}

RECURSIVE Flatten(_)
Flatten(ss) == IF ss = <<>> THEN <<>> ELSE Head(ss) \o Flatten(Tail(ss))

\* ---------------------------------------------------------------- strings
CharCode(c) ==
  CASE c = "," -> 44
    [] c = "0" -> 48 [] c = "1" -> 49 [] c = "2" -> 50 [] c = "3" -> 51
    [] c = "4" -> 52 [] c = "5" -> 53 [] c = "6" -> 54 [] c = "7" -> 55
    [] c = "8" -> 56 [] c = "9" -> 57
    [] c = ":" -> 58 [] c = "-" -> 45
    [] c = "A" -> 65 [] c = "B" -> 66 [] c = "C" -> 67 [] c = "D" -> 68
    [] c = "J" -> 74 [] c = "S" -> 83
    [] OTHER -> 127

\* str.__lt__: lexicographic by code point
StrLess(a, b) ==
  \/ \E i \in 1..Len(a) :
       /\ i <= Len(b)
       /\ \A j \in 1..(i - 1) : a[j] = b[j]
       /\ CharCode(a[i]) < CharCode(b[i])
  \/ /\ Len(a) < Len(b)
     /\ \A j \in 1..Len(a) : a[j] = b[j]

DigitChar(d) ==
  CASE d = 0 -> "0" [] d = 1 -> "1" [] d = 2 -> "2" [] d = 3 -> "3" [] d = 4 -> "4"
    [] d = 5 -> "5" [] d = 6 -> "6" [] d = 7 -> "7" [] d = 8 -> "8" [] OTHER -> "9"

\* str(n) of an f-string
RECURSIVE IntToStr(_)
IntToStr(n) ==
  IF n < 0 THEN <<"-">> \o IntToStr(-n)
  ELSE IF n < 10 THEN <<DigitChar(n)>>
  ELSE IntToStr(n \div 10) \o <<DigitChar(n % 10)>>

\* sep.join(parts)
RECURSIVE Join(_, _)
Join(sep, parts) ==
  IF parts = <<>> THEN <<>>
  ELSE IF Len(parts) = 1 THEN parts[1]
  ELSE parts[1] \o sep \o Join(sep, Tail(parts))

\* --------------------------------------------------------------- sorting
\* sorted()/list.sort are stable: an element's place is the number of elements
\* that go before it, ties going to the earlier position.  before[i][j] says
\* that the key of s[i] orders strictly before the key of s[j].
StableSort(s, before) ==
  LET n == Len(s)
      place(i) == 1 + Cardinality({j \in 1..n : before[j][i] \/ (~before[i][j] /\ j < i)})
  IN  [p \in 1..n |-> s[CHOOSE i \in 1..n : place(i) = p]]

\* ------------------------------------------------ VectorStore (vector_store.py)
\* a missing or empty resource_id (None and '' are both falsy)
NoId == ""

\* a dict without keys
EmptyDict == [k \in {} |-> 0]

\* d.get(k, default)
Get(d, k, default) == IF k \in DOMAIN d THEN d[k] ELSE default

\* vector_store.py:242-243: chunk.get('metadata', {}).get('resource_id')
ResourceIdOf(chunk) == Get(Get(chunk, "metadata", EmptyDict), "resource_id", NoId)

\* vector_store.py:258: chunk.get('distance', 0)
DistanceOf(chunk) == Get(chunk, "distance", 0)

\* the record built at vector_store.py:247-259 (metadata fields that are copied
\* through unchanged are left out); it has no 'metadata' and no 'distance' key
UniqueResource(chunk) ==
  [resource_id |-> ResourceIdOf(chunk), relevance_score |-> One - DistanceOf(chunk)]

\* a later chunk of a resource replaces the record when it is closer
BestChunkWins(acc, chunk) ==
  IF ResourceIdOf(chunk) = NoId THEN acc
  ELSE IF \A r \in Range(acc) : r.resource_id # ResourceIdOf(chunk)
       THEN Append(acc, UniqueResource(chunk))
       ELSE [i \in DOMAIN acc |->
              IF /\ acc[i].resource_id = ResourceIdOf(chunk)
                 /\ acc[i].relevance_score < One - DistanceOf(chunk)
              THEN UniqueResource(chunk) ELSE acc[i]]

\* the truthiness test of resource_id left out
KeepsEmptyIds(acc, chunk) ==
  IF \A r \in Range(acc) : r.resource_id # ResourceIdOf(chunk)
  THEN Append(acc, UniqueResource(chunk))
  ELSE acc

\* one iteration of the loop at vector_store.py:241-259:
\* if resource_id and resource_id not in seen_resources
SeenResourcesStep(acc, chunk) ==
  IF ResourceIdOf(chunk) # NoId /\ \A r \in Range(acc) : r.resource_id # ResourceIdOf(chunk)
  THEN Append(acc, UniqueResource(chunk))
  ELSE acc

RECURSIVE DedupFrom(_, _)
DedupFrom(acc, chunks) ==
  IF chunks = <<>> THEN acc
  ELSE DedupFrom(SeenResourcesStep(acc, Head(chunks)), Tail(chunks))

\* list(seen_resources.values()): a dict keeps insertion order
get_unique_resources(chunks) == DedupFrom(<<>>, chunks)

\* semantic_search_resources (rag.py:32-51) applied to the chunks the store's
\* semantic_search answered: unique_resources[:top_k]
semantic_search_resources(answer, top_k) == Slice(get_unique_resources(answer), top_k)

\* ------------------------------------------------------ RAGRetriever (rag.py)
\* the sort key of rag.py:57 and rag.py:76, score / maxScore if maxScore > 0
\* else 0, as a fraction num / den with den > 0
RatioNum(c) == IF c.maxScore > 0 THEN c.score ELSE 0
RatioDen(c) == IF c.maxScore > 0 THEN c.maxScore ELSE 1
\* the score alone, not divided by maxScore
ScoreLess(a, b) == a.score < b.score
RatioLess(a, b) == RatioNum(a) * RatioDen(b) < RatioNum(b) * RatioDen(a)

\* sorted(categories, key=ratio)
sorted_cats(categories) ==
  StableSort(categories,
             [i \in DOMAIN categories |->
               [j \in DOMAIN categories |-> RatioLess(categories[i], categories[j])]])

Names(cats) == [i \in DOMAIN cats |-> cats[i].name]

\* the names in order of weakness, not sorted
NamesAsGiven(names) == names

\* sorted(cat_names)
SortedNames(names) ==
  StableSort(names, [i \in DOMAIN names |-> [j \in DOMAIN names |-> StrLess(names[i], names[j])]])

\* rag.py:53-61; md5 is taken to be injective, so the key is the digested text
\* f"{stage}:{','.join(sorted(cat_names))}:{top_k}"
_get_cache_key(stage, categories, top_k) ==
  stage \o <<":">>
        \o Join(<<",">>, SortedNames(Names(Take(sorted_cats(categories), Weakest))))
        \o <<":">> \o IntToStr(top_k)

\* every category gets a query, the [:2] left out
EveryCategory(categories) == Names(sorted_cats(categories))

\* rag.py:78
weakest_cats(categories) == Names(Take(sorted_cats(categories), Weakest))

\* the category filter of the stage-wide query (category=None)
NoCategory == <<>>

\* rag.py:87-106: the futures in submission order, each named by its category
\* filter; every one asks for top_k=3
Queries(categories) == Append(weakest_cats(categories), NoCategory)

\* rag.py:89-106: the arguments of each submitted semantic_search_resources
\* call, in submission order
Futures(categories) ==
  [i \in DOMAIN Queries(categories) |->
    [category |-> Queries(categories)[i], top_k |-> QueryTopK]]

\* vector_store.py:167-180: the where filter of the store query; a category
\* that is None or empty adds no condition
Where(category) == IF category # NoCategory THEN [category |-> category] ELSE EmptyDict

\* of the records of one resource, the one with the higher score is kept
HighestScoreWins(acc, res) ==
  IF res.resource_id = NoId THEN acc
  ELSE IF \A r \in Range(acc) : r.resource_id # res.resource_id
       THEN Append(acc, res)
       ELSE [i \in DOMAIN acc |->
              IF /\ acc[i].resource_id = res.resource_id
                 /\ acc[i].relevance_score < res.relevance_score
              THEN res ELSE acc[i]]

\* rag.py:118-125, one iteration
SeenIdsStep(acc, res) ==
  IF res.resource_id # NoId /\ \A r \in Range(acc) : r.resource_id # res.resource_id
  THEN Append(acc, res)
  ELSE acc

RECURSIVE UniqueFrom(_, _)
UniqueFrom(acc, all) ==
  IF all = <<>> THEN acc ELSE UniqueFrom(SeenIdsStep(acc, Head(all)), Tail(all))

\* no deduplication across the queries
NoDedup(all) == all

\* rag.py:118-125
unique_results_of(all) == UniqueFrom(<<>>, all)

\* ascending sort, then reversed: equal scores come out in reverse order
SortThenReverse(rs) ==
  LET asc == StableSort(rs, [i \in DOMAIN rs |-> [j \in DOMAIN rs |->
                              rs[i].relevance_score < rs[j].relevance_score]])
  IN  [i \in DOMAIN rs |-> asc[Len(rs) + 1 - i]]

\* rag.py:128: unique_results.sort(key=relevance_score, reverse=True); reverse
\* keeps the sort stable
SortByRelevance(rs) ==
  StableSort(rs, [i \in DOMAIN rs |-> [j \in DOMAIN rs |->
                   rs[i].relevance_score > rs[j].relevance_score]])

\* rag.py:117-130
MergeResults(all, top_k) == Slice(SortByRelevance(unique_results_of(all)), top_k)

\* rag.py:148, the entry is served while datetime.now() < expiry
FreshInclusive(t, expiry) == t <= expiry
FreshInverted(t, expiry) == t > expiry
Fresh(t, expiry) == t < expiry

\* rag.py:113, except Exception catches what a query raises and the
\* TimeoutError of future.result(timeout=5)
CatchesTimeoutOnly(kind) == kind = "timeout"
Caught(kind) == kind \in {"raise", "timeout"}

\* rag.py:113-115, the handler leaves all_resources as it is
DropsCollected(all) == <<>>
AfterException(all) == all

\* ------------------------------------------------------------ the inputs
Cat(n, sc, mx) == [name |-> <<n>>, score |-> sc, maxScore |-> mx]

Req(cats, k) == [stage |-> <<"J">>, categories |-> cats, top_k |-> k]

\* the requests the callers make: three categories cut to two results, and
\* one category with top_k = 0
Requests ==
  { Req(<<Cat("A", 9, 10), Cat("B", 3, 10), Cat("C", 5, 10)>>, 2),
    Req(<<Cat("C", 1, 10)>>, 0) }

NoRequest == Req(<<>>, 0)

\* a chunk as semantic_search formats it (vector_store.py:186-191)
Chunk(id, d) == [metadata |-> [resource_id |-> id], distance |-> d]

\* what the document store may answer to a query (at most 3 chunks, by
\* ascending distance): resources shared between queries at different
\* distances, equal distances, a chunk without resource_id
Answers(category) ==
  CASE category = <<"B">> ->
         { <<Chunk("r1", 2), Chunk("r1", 4), Chunk("r2", 5)>>, <<Chunk("", 1), Chunk("r3", 7)>> }
    [] category = <<"C">> ->
         { <<Chunk("r1", 1), Chunk("r3", 5)>> }
    [] OTHER ->
         { <<Chunk("r4", 5), Chunk("r2", 5)>> }

\* -------------------------------------------------------------- the state
Threads == {"t1", "t2"}

\* the calls of one request thread, made one after the other
OneThread == {"t1"}

VARIABLES
  cache,          \* self._cache: cache_key -> (results, expiry)
  now,            \* datetime.now()
  calls,          \* calls started so far
  pc,             \* where each thread's retrieve_resources_for_user call stands
  req,            \* its arguments
  wi,             \* the future its loop at rag.py:109 waits for
  all_resources,  \* rag.py:80
  running,        \* queries it gave up on after the timeout, still in a worker
  unique_results, \* rag.py:119, before the sort
  results,        \* what the call returns
  nq,             \* document-store queries the call has issued
  outs,           \* what each of its futures gave: [ok, res]
  path,           \* "hit" or "miss"
  stale,          \* the call read an entry at or after its expiry
  hist,           \* cache_key -> what the last finished call for it returned
  dedup,          \* a get_unique_resources call on its own: [chunks, out, done]
  sel,            \* the futures submitted for a category list: [categories, futures, done]
  fan,            \* one fan-out with its workers (rag.py:83-130)
  single,         \* the module global _rag_instance and the callers of get_rag_retriever
  op,             \* the last call of a derived operation (rag.py:164-337)
  gen,            \* one POST /api/generate-resources request (main.py:359-506)
  keyed           \* two requests and the cache keys made for them (rag.py:53-61)

vars == <<cache, now, calls, pc, req, wi, all_resources, running, unique_results,
          results, nq, outs, path, stale, hist, dedup, sel, fan, single, op, gen, keyed>>

\* what the calls of retrieve_resources_for_user leave alone
aux == <<dedup, sel, fan, single, op, gen, keyed>>

locals == <<wi, all_resources, running, unique_results, results, nq, outs, path, stale>>

Key(t) == _get_cache_key(req[t].stage, req[t].categories, req[t].top_k)

\* dict operations
\* a store that keeps no other entry
PutAlone(d, k, v) == [x \in {k} |-> v]
DictPut(d, k, v) == [x \in DOMAIN d \cup {k} |-> IF x = k THEN v ELSE d[x]]
DictDel(d, k) == [x \in DOMAIN d \ {k} |-> d[x]]

NoDedupCall == [chunks |-> <<>>, out |-> <<>>, done |-> FALSE]

\* no thread is inside retrieve_resources_for_user
NoCalls ==
  /\ pc = [t \in Threads |-> "idle"]
  /\ req = [t \in Threads |-> NoRequest]
  /\ wi = [t \in Threads |-> 0]
  /\ all_resources = [t \in Threads |-> <<>>]
  /\ running = [t \in Threads |-> {}]
  /\ unique_results = [t \in Threads |-> <<>>]
  /\ results = [t \in Threads |-> <<>>]
  /\ nq = [t \in Threads |-> 0]
  /\ outs = [t \in Threads |-> <<>>]
  /\ path = [t \in Threads |-> ""]
  /\ stale = [t \in Threads |-> FALSE]
  /\ hist = <<>>

\* the retriever after RAGRetriever.__init__ (rag.py:26-30), no call made yet
InitRetriever ==
  /\ cache = <<>>
  /\ now = 0
  /\ calls = 0
  /\ NoCalls

NoSelect == [categories |-> <<>>, futures |-> <<>>, done |-> FALSE]
NoFanOut ==
  [categories |-> <<>>, top_k |-> 0, answers |-> <<>>, completed |-> <<>>, wi |-> 0,
   timed_out |-> {}, all_resources |-> <<>>, out |-> <<>>, done |-> FALSE]
\* _rag_instance is None
None == 0

\* the module after the first get_rag_retriever call: one RAGRetriever made,
\* held by _rag_instance, nobody inside get_rag_retriever
OneRetriever ==
  [instance |-> 1, created |-> 1, gets |-> 0,
   at |-> [t \in Threads |-> "idle"], got |-> [t \in Threads |-> None]]
NoOperation == [name |-> "", args |-> <<>>, answers |-> <<>>, nq |-> 0, out |-> <<>>]

\* the operations that a specification does not exercise have not been
\* called: every variable but the one of the operation it exercises has its
\* idle value (no /api/generate-resources request, no key made)
OthersIdle(v) ==
  /\ IF v = "dedup" THEN TRUE ELSE dedup = NoDedupCall
  /\ IF v = "sel" THEN TRUE ELSE sel = NoSelect
  /\ IF v = "fan" THEN TRUE ELSE fan = NoFanOut
  /\ IF v = "single" THEN TRUE ELSE single = OneRetriever
  /\ IF v = "op" THEN TRUE ELSE op = NoOperation
  /\ IF v = "gen" THEN TRUE ELSE gen = [pc |-> "idle"]
  /\ IF v = "keyed" THEN TRUE ELSE keyed = [done |-> FALSE]

Init == InitRetriever /\ OthersIdle("")

\* ------------------------------------------- retrieve_resources_for_user
Set(f, t, v) == [f EXCEPT ![t] = v]

\* rag.py:73-106: the weakest categories are chosen and every query is handed
\* to the executor
Submit(t) ==
  /\ pc' = Set(pc, t, "wait")
  /\ path' = Set(path, t, "miss")
  /\ wi' = Set(wi, t, 1)
  /\ all_resources' = Set(all_resources, t, <<>>)
  /\ outs' = Set(outs, t, <<>>)
  /\ running' = Set(running, t, {})
  /\ nq' = Set(nq, t, Len(Queries(req[t].categories)))
  /\ UNCHANGED <<unique_results, results>>

\* the exception leaves retrieve_resources_for_user
Raise(t) ==
  /\ pc' = Set(pc, t, "raised")
  /\ UNCHANGED <<cache, locals>>

\* a request handler calls retrieve_resources_for_user(stage, categories, top_k)
\* with one of the given requests
CallOf(t, requests) ==
  /\ calls < MaxCalls
  /\ calls' = calls + 1
  /\ \E r \in requests : req' = Set(req, t, r)
  /\ pc' = Set(pc, t, "check")
  /\ UNCHANGED <<cache, now, locals, hist, aux>>

Call(t) == pc[t] = "idle" /\ CallOf(t, Requests)

\* a sliding TTL: a hit gives the entry a new expiry
SlidingTTL(c, k, t) == DictPut(c, k, [results |-> c[k].results, expiry |-> t + cache_ttl])
\* rag.py:147-150: serving the entry assigns nothing to self._cache
CacheAfterHit(c, k, t) == c

\* rag.py:146, if cache_key in self._cache
Check(t) ==
  /\ pc[t] = "check"
  /\ IF Key(t) \in DOMAIN cache
     THEN pc' = Set(pc, t, "read") /\ UNCHANGED locals
     ELSE Submit(t) /\ UNCHANGED stale
  /\ UNCHANGED <<cache, now, calls, req, hist, aux>>

\* rag.py:147-150, results, expiry = self._cache[cache_key] and the test of
\* the expiry against the clock
Read(t) ==
  /\ pc[t] = "read"
  /\ IF Key(t) \notin DOMAIN cache
     THEN Raise(t)
     ELSE /\ stale' = Set(stale, t, now >= cache[Key(t)].expiry)
          /\ IF Fresh(now, cache[Key(t)].expiry)
             THEN /\ results' = Set(results, t, cache[Key(t)].results)
                  /\ path' = Set(path, t, "hit")
                  /\ pc' = Set(pc, t, "done")
                  /\ cache' = CacheAfterHit(cache, Key(t), now)
             ELSE /\ pc' = Set(pc, t, "del")
                  /\ UNCHANGED <<cache, results, path>>
          /\ UNCHANGED <<wi, all_resources, running, unique_results, nq, outs>>
  /\ UNCHANGED <<now, calls, req, hist, aux>>

\* rag.py:153, del self._cache[cache_key], and then the miss path
Evict(t) ==
  /\ pc[t] = "del"
  /\ IF Key(t) \notin DOMAIN cache
     THEN Raise(t)
     ELSE /\ cache' = DictDel(cache, Key(t))
          /\ Submit(t)
          /\ UNCHANGED stale
  /\ UNCHANGED <<now, calls, req, hist, aux>>

Advance(t) ==
  /\ wi' = Set(wi, t, wi[t] + 1)
  /\ pc' = Set(pc, t, IF wi[t] = Len(Queries(req[t].categories)) THEN "exit" ELSE "wait")

\* rag.py:111-112, future.result(timeout=5) returns what
\* semantic_search_resources made of the store's answer
QueryReturns(t) ==
  /\ pc[t] = "wait"
  /\ \E answer \in Answers(Futures(req[t].categories)[wi[t]].category) :
       LET res == semantic_search_resources(answer, Futures(req[t].categories)[wi[t]].top_k)
       IN  /\ all_resources' = Set(all_resources, t, all_resources[t] \o res)
           /\ outs' = Set(outs, t, Append(outs[t], [ok |-> TRUE, res |-> res]))
  /\ Advance(t)
  /\ UNCHANGED <<cache, now, calls, req, running, unique_results, results, nq, path,
                 stale, hist, aux>>

\* rag.py:113-115, future.result raises what the query raised, or TimeoutError
\* while the query is still running in its worker
QueryFails(t) ==
  /\ pc[t] = "wait"
  /\ \E kind \in {"raise", "timeout"} :
       /\ running' = Set(running, t, IF kind = "timeout" THEN running[t] \cup {wi[t]}
                                     ELSE running[t])
       /\ outs' = Set(outs, t, Append(outs[t], [ok |-> FALSE, res |-> <<>>]))
       /\ IF Caught(kind)
          THEN /\ all_resources' = Set(all_resources, t, AfterException(all_resources[t]))
               /\ Advance(t)
          ELSE /\ pc' = Set(pc, t, "raised")
               /\ UNCHANGED <<all_resources, wi>>
  /\ UNCHANGED <<cache, now, calls, req, unique_results, results, nq, path,
                 stale, hist, aux>>

\* a query the caller gave up on ends in its worker; nobody reads its result.
\* The call notices a worker's end only where it waits for the workers, at the
\* end of the with block, so that is where the model lets it happen.
LateDone(t) ==
  /\ pc[t] = "exit"
  /\ \E i \in running[t] : running' = Set(running, t, running[t] \ {i})
  /\ UNCHANGED <<cache, now, calls, pc, req, wi, all_resources, unique_results, results,
                 nq, outs, path, stale, hist, aux>>

\* an empty list is not worth an entry
StoresNonEmpty(c, k, rs, t) ==
  IF rs = <<>> THEN c ELSE DictPut(c, k, [results |-> rs, expiry |-> t + cache_ttl])
\* rag.py:157-160: self._cache[cache_key] = (results, now + cache_ttl),
\* whatever the list
StoreEntry(c, k, rs, t) == DictPut(c, k, [results |-> rs, expiry |-> t + cache_ttl])

\* the with block ends (ThreadPoolExecutor.__exit__ waits for the workers),
\* rag.py:117-130 make the list, and rag.py:160-162 store and return it
Store(t) ==
  /\ pc[t] = "exit"
  /\ running[t] = {}
  /\ unique_results' = Set(unique_results, t, unique_results_of(all_resources[t]))
  /\ results' = Set(results, t, MergeResults(all_resources[t], req[t].top_k))
  /\ cache' = StoreEntry(cache, Key(t), MergeResults(all_resources[t], req[t].top_k), now)
  /\ pc' = Set(pc, t, "done")
  /\ UNCHANGED <<now, calls, req, wi, all_resources, running, nq, outs, path,
                 stale, hist, aux>>

ResetLocals(t) ==
  /\ wi' = Set(wi, t, 0)
  /\ all_resources' = Set(all_resources, t, <<>>)
  /\ running' = Set(running, t, {})
  /\ unique_results' = Set(unique_results, t, <<>>)
  /\ results' = Set(results, t, <<>>)
  /\ nq' = Set(nq, t, 0)
  /\ outs' = Set(outs, t, <<>>)
  /\ path' = Set(path, t, "")
  /\ stale' = Set(stale, t, FALSE)
  /\ req' = Set(req, t, NoRequest)
  /\ pc' = Set(pc, t, "idle")

\* the caller has the list
Return(t) ==
  /\ pc[t] = "done"
  /\ ResetLocals(t)
  /\ UNCHANGED <<cache, now, calls, hist, aux>>

\* the same step, with hist remembering the list the caller got, the expiry
\* of the entry the cache holds for the key, and the request
ReturnNoted(t) ==
  /\ pc[t] = "done"
  /\ hist' = DictPut(hist, Key(t),
                     [results |-> results[t],
                      expiry |-> IF Key(t) \in DOMAIN cache THEN cache[Key(t)].expiry ELSE 0,
                      req |-> req[t]])
  /\ ResetLocals(t)
  /\ UNCHANGED <<cache, now, calls, aux>>

\* the caller has the exception
Unwind(t) ==
  /\ pc[t] = "raised"
  /\ ResetLocals(t)
  /\ UNCHANGED <<cache, now, calls, hist, aux>>

\* time passes
Tick ==
  /\ now < MaxTime
  /\ now' = now + 1
  /\ UNCHANGED <<cache, calls, pc, req, locals, hist, aux>>

\* the steps the thread of a started call takes itself
Runs(t) ==
  \/ Check(t) \/ Read(t) \/ Evict(t)
  \/ QueryReturns(t) \/ QueryFails(t) \/ Store(t)

\* the steps of a call that has started, its workers' included
Steps(t) == Runs(t) \/ LateDone(t)

Work(t) == Call(t) \/ Steps(t)

\* request threads of the server call the shared retriever concurrently
Next == Tick \/ \E t \in Threads : Work(t) \/ Return(t) \/ Unwind(t)

Spec == Init /\ [][Next]_vars

\* one request thread: the calls follow one another (no call of it ever
\* raises, so there is no exception to hand to the caller)
NextSeq == Tick \/ \E t \in OneThread : Work(t) \/ ReturnNoted(t)

SpecSeq == Init /\ [][NextSeq]_vars

\* ------------------------------- requests that differ only in what the key
\* leaves out: the order of the two weakest, the order of the list, the scores
\* and the third category
NormRequests ==
  { Req(<<Cat("A", 9, 10), Cat("B", 3, 10), Cat("C", 5, 10)>>, 2),
    Req(<<Cat("C", 2, 10), Cat("D", 8, 10), Cat("B", 4, 10)>>, 2) }

CallNorm(t) == pc[t] = "idle" /\ CallOf(t, NormRequests)

NextNorm == Tick \/ \E t \in OneThread : CallNorm(t) \/ Steps(t) \/ ReturnNoted(t)

SpecNorm == Init /\ [][NextNorm]_vars

\* --------------------------- one fan-out and its workers (rag.py:83-130)
\* what the store answers to each query is fixed when the queries are
\* submitted; the workers end in any order, each within the timeout
FanAnswers(category) == Answers(category) \cup {<<>>}

FanChoices(categories) ==
  { a \in [DOMAIN Futures(categories) -> UNION {FanAnswers(Futures(categories)[i].category) :
                                                   i \in DOMAIN Futures(categories)}] :
      \A i \in DOMAIN a : a[i] \in FanAnswers(Futures(categories)[i].category) }

\* as_completed: the futures in the order in which they ended
CompletionOrder(completed, n) == completed

\* rag.py:109, for future in futures: the list order, which is the order of
\* submission
LoopOrder(completed, n) == [i \in 1..n |-> i]

InitFan ==
  /\ InitRetriever /\ OthersIdle("fan")
  /\ \E r \in Requests : \E a \in FanChoices(r.categories) :
       fan = [categories |-> r.categories, top_k |-> r.top_k, answers |-> a,
              completed |-> <<>>, wi |-> 1, timed_out |-> {}, all_resources |-> <<>>,
              out |-> <<>>, done |-> FALSE]

FanFrame == UNCHANGED <<cache, now, calls, pc, req, locals, hist, dedup, sel, single, op, gen, keyed>>

\* the worker of future i ends its semantic_search_resources call
WorkerEnds(i) ==
  /\ i \in DOMAIN fan.answers
  /\ i \notin Range(fan.completed)
  /\ fan' = [fan EXCEPT !.completed = Append(fan.completed, i)]
  /\ FanFrame

\* rag.py:109-112: future.result(timeout=5) of the loop's next future returns
\* once its worker has ended, and the list is extended
Collect ==
  LET order == LoopOrder(fan.completed, Len(fan.answers))
  IN  /\ ~fan.done
      /\ fan.wi \in DOMAIN order
      /\ order[fan.wi] \in Range(fan.completed)
      /\ fan' = [fan EXCEPT
                   !.all_resources =
                      fan.all_resources
                        \o semantic_search_resources(fan.answers[order[fan.wi]],
                                                     Futures(fan.categories)[order[fan.wi]].top_k),
                   !.wi = fan.wi + 1]
      /\ FanFrame

\* rag.py:117-130 after the with block
Merge ==
  /\ ~fan.done
  /\ fan.wi = Len(fan.answers) + 1
  /\ fan' = [fan EXCEPT !.out = MergeResults(fan.all_resources, fan.top_k), !.done = TRUE]
  /\ FanFrame

NextFan == Collect \/ Merge \/ \E i \in 1..(Weakest + 1) : WorkerEnds(i)

SpecFan == InitFan /\ [][NextFan]_vars

\* ------------- the fan-out with queries that time out, and the store of
\* its result (rag.py:83-130 and 155-160)
\* rag.py:113-115: future.result(timeout=5) of the loop's next future raises
\* TimeoutError, its worker not having ended; nothing is collected and the
\* loop goes on
TimesOut ==
  LET order == LoopOrder(fan.completed, Len(fan.answers))
  IN  /\ ~fan.done
      /\ fan.wi \in DOMAIN order
      /\ order[fan.wi] \notin Range(fan.completed)
      /\ fan' = [fan EXCEPT !.timed_out = fan.timed_out \cup {order[fan.wi]},
                            !.wi = fan.wi + 1]
      /\ FanFrame

\* what the workers of the timed-out futures produced in the end
LateResults(f) ==
  Flatten([i \in DOMAIN f.answers |->
            IF i \in f.timed_out
            THEN semantic_search_resources(f.answers[i], Futures(f.categories)[i].top_k)
            ELSE <<>>])

\* the futures' late results are collected once the workers have ended
CollectsLate(all, late) == all \o late
\* rag.py:117-130: after the loop no statement reads a future
AfterWith(all, late) == all

\* the with block ends once every worker has ended (ThreadPoolExecutor.__exit__),
\* rag.py:117-130 make the list, and rag.py:155-162 store and return it
MergeAndStore ==
  LET out == MergeResults(AfterWith(fan.all_resources, LateResults(fan)), fan.top_k)
      r == Req(fan.categories, fan.top_k)
  IN  /\ ~fan.done
      /\ fan.wi = Len(fan.answers) + 1
      /\ Range(fan.completed) = DOMAIN fan.answers
      /\ fan' = [fan EXCEPT !.out = out, !.done = TRUE]
      /\ cache' = StoreEntry(cache, _get_cache_key(r.stage, r.categories, r.top_k), out, now)
      /\ UNCHANGED <<now, calls, pc, req, locals, hist, dedup, sel, single, op, gen, keyed>>

NextLate ==
  Collect \/ TimesOut \/ MergeAndStore \/ \E i \in 1..(Weakest + 1) : WorkerEnds(i)

SpecLate == InitFan /\ [][NextLate]_vars

\* ------------------------------------ the derived operations (rag.py:164-337)
\* a chunk of a social-media resource, with the engagement its metadata holds
SocialChunk(id, d, e) ==
  [metadata |-> [resource_id |-> id, engagement_score |-> e], distance |-> d]

\* what the store may answer to a query of a derived operation
DerivedAnswers == { <<>>, <<Chunk("r1", 2), Chunk("r2", 5)>> }

\* and to a query of retrieve_skill_relationships
PairAnswers == { <<>>, <<Chunk("r1", 2)>>, <<Chunk("r2", 3), Chunk("r1", 4)>> }

\* and to a query filtered by resource type
SocialAnswers(resource_type) ==
  IF resource_type = "video"
  THEN { <<SocialChunk("v1", 2, 5), SocialChunk("v2", 3, 90)>>, <<SocialChunk("v1", 2, 5)>> }
  ELSE { <<SocialChunk("p1", 1, 40)>>, <<>> }

\* the retriever's cache when a derived operation is called: empty, or
\* holding what a retrieve_resources_for_user call stored at time 0
StoredCaches ==
  { <<>> } \cup
  { DictPut(<<>>, _get_cache_key(r.stage, r.categories, r.top_k),
            [results |-> MergeResults(semantic_search_resources(a, QueryTopK), r.top_k),
             expiry |-> cache_ttl]) :
      r \in Requests, a \in Answers(<<"B">>) }

InitDerived ==
  /\ cache \in StoredCaches
  /\ now = 0
  /\ calls = 0
  /\ NoCalls
  /\ OthersIdle("")

\* a derived operation that kept its result in the cache
MemoDerived(c, name, out) == DictPut(c, <<name>>, [results |-> out, expiry |-> cache_ttl])

\* rag.py:164-337: no statement of a derived operation names self._cache
DerivedCache(c, name, out) == c

\* the call returns: the record of the call, and what it left of the cache
Returns(name, args, answers, out) ==
  /\ calls' = calls + 1
  /\ op' = [name |-> name, args |-> args, answers |-> answers, nq |-> Len(answers),
            out |-> out]
  /\ cache' = DerivedCache(cache, name, out)
  /\ UNCHANGED <<now, pc, req, locals, hist, dedup, sel, fan, single, gen, keyed>>

\* the arguments the callers pass
PathCategories ==
  { <<>>, <<Cat("B", 3, 10)>>, <<Cat("B", 3, 10), Cat("C", 5, 10)>>,
    <<Cat("B", 3, 10), Cat("C", 5, 10), Cat("A", 9, 10)>> }

NameLists == { <<>>, <<<<"B">>>>, <<<<"B">>, <<"C">>>> }

WeakLists == { <<<<"B">>>>, <<<<"B">>, <<"C">>>> }

StrongLists == { <<<<"A">>>>, <<<<"A">>, <<"D">>>> }

TypeLists == { <<"video", "podcast">>, <<"podcast", "video">>, <<"podcast">> }

Limits == { 1, 8 }

\* rag.py:196-209, the module of one category
Module(cat_name, beginner_resources, advanced_resources) ==
  [category |-> cat_name,
   steps |-> << [level |-> "Foundation", resources |-> beginner_resources],
                [level |-> "Advanced Application", resources |-> advanced_resources] >>]

\* rag.py:164-212: for every category of the list, a Beginner and an Advanced
\* query with top_k=2, and a module of the two
generate_learning_path ==
  /\ calls < MaxCalls
  /\ \E weak_categories \in PathCategories :
         \E answers \in [1..(2 * Len(weak_categories)) -> DerivedAnswers] :
           Returns("generate_learning_path",
                   [weak_categories |-> weak_categories, stage |-> <<"J">>],
                   answers,
                   [stage |-> <<"J">>,
                    modules |-> [i \in DOMAIN weak_categories |->
                                  Module(weak_categories[i].name,
                                         semantic_search_resources(answers[2 * i - 1], 2),
                                         semantic_search_resources(answers[2 * i], 2))]])

\* rag.py:234-248: paths[cat] = the top_k=3 query of cat, for every cat
retrieve_learning_paths ==
  /\ calls < MaxCalls
  /\ \E categories \in NameLists :
         \E answers \in [DOMAIN categories -> DerivedAnswers] :
           Returns("retrieve_learning_paths",
                   [categories |-> categories],
                   answers,
                   [cat \in Range(categories) |->
                     semantic_search_resources(
                       answers[CHOOSE i \in DOMAIN categories :
                                 /\ categories[i] = cat
                                 /\ \A j \in DOMAIN categories : categories[j] = cat => j <= i],
                       3)])

\* rag.py:250-255: one query without filter, top_k=5
retrieve_stage_competencies ==
  /\ calls < MaxCalls
  /\ \E answers \in [1..1 -> DerivedAnswers] :
         Returns("retrieve_stage_competencies", [stage |-> <<"J">>], answers,
                 semantic_search_resources(answers[1], 5))

\* rag.py:257-274: a top_k=1 query for every (weak, strong) pair, the results
\* that are not empty collected, and get_unique_resources applied to the
\* collected records
retrieve_skill_relationships ==
  /\ calls < MaxCalls
  /\ \E weak_cats \in WeakLists, strong_cats \in StrongLists :
         \E answers \in [1..(Len(weak_cats) * Len(strong_cats)) -> PairAnswers] :
           LET relationships ==
                 Flatten([i \in DOMAIN answers |-> semantic_search_resources(answers[i], 1)])
           IN  Returns("retrieve_skill_relationships",
                       [weak_cats |-> weak_cats, strong_cats |-> strong_cats],
                       answers,
                       Slice(get_unique_resources(relationships), 5))

\* rag.py:329-332: the sort key, engagement_score or view_count of the
\* record's 'metadata'
EngagementKey(x) ==
  LET metadata == Get(x, "metadata", EmptyDict)
  IN  IF Get(metadata, "engagement_score", 0) # 0
      THEN Get(metadata, "engagement_score", 0)
      ELSE Get(metadata, "view_count", 0)

\* rag.py:328-334: all_resources.sort(key=..., reverse=True)
SortByEngagement(rs) ==
  StableSort(rs, [i \in DOMAIN rs |-> [j \in DOMAIN rs |->
                   EngagementKey(rs[i]) > EngagementKey(rs[j])]])

\* rag.py:276-337 with the resource types given: a query for every type (the
\* store answers at most limit // len(resource_types) + 2 chunks), each answer
\* deduplicated, the whole sorted and cut to limit
retrieve_social_media_resources ==
  /\ calls < MaxCalls
  /\ \E resource_types \in TypeLists, limit \in Limits :
         \E answers \in [DOMAIN resource_types -> UNION {SocialAnswers(ty) : ty \in Range(resource_types)}] :
           /\ \A i \in DOMAIN answers : answers[i] \in SocialAnswers(resource_types[i])
           /\ LET all == Flatten([i \in DOMAIN answers |-> get_unique_resources(answers[i])])
              IN  Returns("retrieve_social_media_resources",
                          [resource_types |-> resource_types, limit |-> limit],
                          answers,
                          Slice(SortByEngagement(all), limit))

NextDerived ==
  \/ generate_learning_path \/ retrieve_learning_paths \/ retrieve_stage_competencies
  \/ retrieve_skill_relationships \/ retrieve_social_media_resources

SpecDerived == InitDerived /\ [][NextDerived]_vars

\* ------------------------------------- get_rag_retriever (rag.py:339-349)
\* the module as imported (rag.py:340): no RAGRetriever made yet
InitSingle ==
  /\ InitRetriever /\ OthersIdle("single")
  /\ single = [instance |-> None, created |-> 0, gets |-> 0,
               at |-> [t \in Threads |-> "idle"], got |-> [t \in Threads |-> None]]

SingleFrame == UNCHANGED <<cache, now, calls, pc, req, locals, hist, dedup, sel, fan, op, gen, keyed>>

\* a request handler calls get_rag_retriever()
GetCall(t) ==
  /\ single.at[t] = "idle"
  /\ single.gets < MaxGets
  /\ single' = [single EXCEPT !.gets = single.gets + 1, !.at[t] = "test"]
  /\ SingleFrame

\* rag.py:347, if _rag_instance is None
TestNone(t) ==
  /\ single.at[t] = "test"
  /\ single' = [single EXCEPT !.at[t] = IF single.instance = None THEN "new" ELSE "return"]
  /\ SingleFrame

\* rag.py:348, _rag_instance = RAGRetriever(): a new retriever, with a new
\* empty cache, is made and the global is set to it
Construct(t) ==
  /\ single.at[t] = "new"
  /\ single' = [single EXCEPT !.created = single.created + 1,
                              !.instance = single.created + 1,
                              !.at[t] = "return"]
  /\ SingleFrame

\* rag.py:349, return _rag_instance
GetReturn(t) ==
  /\ single.at[t] = "return"
  /\ single' = [single EXCEPT !.got[t] = single.instance, !.at[t] = "idle"]
  /\ SingleFrame

NextSingle == \E t \in Threads : GetCall(t) \/ TestNone(t) \/ Construct(t) \/ GetReturn(t)

SpecSingle == InitSingle /\ [][NextSingle]_vars

\* ------------------------------------- get_unique_resources on its own
ChunkIds == {NoId, "r1", "r2"}
Distances == {1, 8}
ChunkValues == {Chunk(id, d) : id \in ChunkIds, d \in Distances}

ChunkLists == UNION {[1..n -> ChunkValues] : n \in 0..MaxChunks}

InitDedup ==
  /\ InitRetriever /\ OthersIdle("dedup")
  /\ dedup \in {[chunks |-> c, out |-> <<>>, done |-> FALSE] : c \in ChunkLists}

\* a caller passes the chunk list to get_unique_resources
Dedupe ==
  /\ ~dedup.done
  /\ dedup' = [dedup EXCEPT !.out = get_unique_resources(dedup.chunks), !.done = TRUE]
  /\ UNCHANGED <<cache, now, calls, pc, req, locals, hist, sel, fan, single, op, gen, keyed>>

SpecDedup == InitDedup /\ [][Dedupe]_vars

\* ------------------------------------------ the futures of a category list
SelNames == {"A", "B", "C", "D"}

\* (score, maxScore): ratios 0.3, 0.3, 0.25 and, with maxScore 0, 0
SelScores == {<<3, 10>>, <<6, 20>>, <<1, 4>>, <<5, 0>>}

\* the category lists a request may carry: up to MaxCats categories of
\* different names, in any order, with any of the scores
CatLists ==
  UNION {
    { [i \in 1..n |-> Cat(names[i], scores[i][1], scores[i][2])] :
        names \in {f \in [1..n -> SelNames] : \A i, j \in 1..n : i # j => f[i] # f[j]},
        scores \in [1..n -> SelScores] } :
    n \in 0..MaxCats }

InitSelect ==
  /\ InitRetriever /\ OthersIdle("sel")
  /\ sel \in {[categories |-> c, futures |-> <<>>, done |-> FALSE] : c \in CatLists}

\* rag.py:73-106 for the category list: the weakest are chosen and the
\* futures submitted
Select ==
  /\ ~sel.done
  /\ sel' = [sel EXCEPT !.futures = Futures(sel.categories), !.done = TRUE]
  /\ UNCHANGED <<cache, now, calls, pc, req, locals, hist, dedup, fan, single, op, gen, keyed>>

SpecSelect == InitSelect /\ [][Select]_vars

\* ----------------------- POST /api/generate-resources (main.py:359-506)
\* a resource of the curated table
Resource(title) == [title |-> title, url |-> title, description |-> title, tags |-> <<>>]

\* a dict that keeps the order in which its keys were inserted: a sequence
\* of [key, value]
HasKey(d, k) == \E i \in DOMAIN d : d[i].key = k
ValueOf(d, k) == d[CHOOSE i \in DOMAIN d : d[i].key = k].value

\* d[k] = v: a key the dict has keeps its place, a new key goes last
SetItem(d, k, v) ==
  IF HasKey(d, k)
  THEN [i \in DOMAIN d |-> IF d[i].key = k THEN [key |-> k, value |-> v] ELSE d[i]]
  ELSE Append(d, [key |-> k, value |-> v])

RECURSIVE DictUpdate(_, _)
\* d.update(e)
DictUpdate(d, e) ==
  IF e = <<>> THEN d ELSE DictUpdate(SetItem(d, Head(e).key, Head(e).value), Tail(e))

\* main.py:119-193
get_fallback_resources ==
  << [key |-> "UX Fundamentals",
      value |-> <<Resource("Laws of UX"), Resource("UX Research Cheat Sheet")>>],
     [key |-> "UI Craft & Visual Design",
      value |-> <<Resource("Refactoring UI"), Resource("Material Design Guidelines")>>],
     [key |-> "User Research & Validation",
      value |-> <<Resource("The Mom Test"), Resource("A Guide to Usability Testing")>>],
     [key |-> "Information Architecture",
      value |-> <<Resource("Information Architecture Basics")>>],
     [key |-> "Interaction Design",
      value |-> <<Resource("Microinteractions")>>] >>

\* what load_curated_resources (main.py:71-117) may have read from
\* resources.json: nothing, a table with a category of its own and a resource
\* without a description, a table that gives the first category no resource
LoadedTables ==
  { <<>>,
    << [key |-> "Content Design",
        value |-> <<Resource("Microcopy"), [title |-> "Plain Language"], Resource("Voice"),
                    Resource("Tone")>>] >>,
    << [key |-> "UX Fundamentals", value |-> <<>>] >> }

\* main.py:230-231: the hard-coded table, overridden by the loaded one
CuratedResources(loaded) == DictUpdate(get_fallback_resources, loaded)

\* main.py:240-243, CategoryScore
CategoryScore(name, score, maxScore) == [name |-> name, score |-> score, maxScore |-> maxScore]

\* the categories of the requests: none, one the table lacks, categories of
\* the table among others, a category without resources when the table gives
\* it none
GenCategories ==
  { <<>>,
    <<CategoryScore("Accessibility", 1, 10)>>,
    <<CategoryScore("Interaction Design", 9, 10), CategoryScore("Content Design", 2, 10),
      CategoryScore("UX Fundamentals", 5, 10)>>,
    <<CategoryScore("UX Fundamentals", 0, 0)>> }

\* main.py:383-387 and 460-464, sorted(data.categories, key=ratio)
sorted_categories(categories) ==
  StableSort(categories,
             [i \in DOMAIN categories |->
               [j \in DOMAIN categories |-> RatioLess(categories[i], categories[j])]])

RECURSIVE CollectCurated(_, _)
\* main.py:391-393 and 466-468: up to two resources of each category the
\* table has
CollectCurated(table, cats) ==
  IF cats = <<>> THEN <<>>
  ELSE (IF HasKey(table, Head(cats).name)
        THEN Slice(ValueOf(table, Head(cats).name), 2) ELSE <<>>)
       \o CollectCurated(table, Tail(cats))

\* main.py:395-398 and 469-471: without a match, the first three resources
\* of the table's first key
FirstKeyFallback(table, selected) ==
  IF selected = <<>> /\ table # <<>> THEN Slice(table[1].value, 3) ELSE selected

\* no last resort
NoFinalSafety(selected) == selected
\* main.py:400-402: if still no resources, the hard-coded ones
FinalSafety(selected) ==
  IF selected = <<>>
  THEN Slice(IF HasKey(get_fallback_resources, "UX Fundamentals")
             THEN ValueOf(get_fallback_resources, "UX Fundamentals") ELSE <<>>, 3)
  ELSE selected

\* main.py:388-402
SelectedResources(table, categories) ==
  FinalSafety(FirstKeyFallback(table,
                CollectCurated(table, Slice(sorted_categories(categories), 2))))

\* main.py:405-412 and 474-481 (tail is the end of the default description)
FormatResources(rs, tail) ==
  [i \in DOMAIN rs |->
    [title |-> Get(rs[i], "title", ""),
     url |-> Get(rs[i], "url", ""),
     description |-> Get(rs[i], "description",
                         <<"Learn about ", Get(rs[i], "title", "UX skills"), tail>>),
     tags |-> Get(rs[i], "tags", <<>>)]]

\* main.py:484-498
HardcodedResources ==
  << [title |-> "Laws of UX", url |-> "https://lawsofux.com/",
      description |-> "A collection of best practices", tags |-> <<"Heuristics", "Psychology">>],
     [title |-> "Nielsen Norman Group", url |-> "https://www.nngroup.com/",
      description |-> "Evidence-based user experience research",
      tags |-> <<"Research", "Reference">>] >>

\* main.py:459-498: the resources of the except branch
ExceptResources(table, categories) ==
  LET formatted ==
        FormatResources(FirstKeyFallback(table,
                          CollectCurated(table, Slice(sorted_categories(categories), 2))),
                        ".")
  IN  IF formatted = <<>> THEN HardcodedResources ELSE formatted

\* a text that is None or empty
NoText == ""

\* what get_pregenerated_resources(data.totalScore) gives (main.py:376): None,
\* the "resources" object of the score's file with or without a readup, or a
\* value of the file that is no dict, on which .get raises (main.py:378)
PregeneratedOutcomes ==
  { [kind |-> "None"],
    [kind |-> "dict", value |-> [readup |-> "pre"]],
    [kind |-> "dict", value |-> EmptyDict],
    [kind |-> "list"] }

\* what retrieve_resources_for_user(stage, categories, top_k=5) gives
\* generate_resources_ollama (ollama_client.py:320-326; an exception of it
\* leaves the empty list)
RagResults == {<<>>, <<UniqueResource(Chunk("r1", 1))>>}

\* what call_ollama(prompt) gives (ollama_client.py:48-98): None, or the
\* parsed JSON object, with or without a readup
AiResponses ==
  { [kind |-> "None"],
    [kind |-> "dict", value |-> [readup |-> "ai"]],
    [kind |-> "dict", value |-> EmptyDict] }

\* ollama_client.py:312-357: the resources are formatted, and
\* ai_response.get raises on None
generate_resources_ollama(resources, ai_response) ==
  IF ai_response.kind = "None"
  THEN [raised |-> TRUE]
  ELSE [raised |-> FALSE,
        value |-> [readup |-> Get(ai_response.value, "readup", "Keep growing your skills!"),
                   resources |-> FormatResources(resources, "")]]

\* x or y
Or(x, y) == IF x = NoText THEN y ELSE x

\* the request arrives (main.py:366-371): the module's flags and table, the
\* request's categories, and the locals as first assigned
InitGen ==
  /\ InitRetriever /\ OthersIdle("gen")
  /\ \E u \in BOOLEAN : \E l \in LoadedTables : \E c \in GenCategories :
       gen = [pc |-> "lookup", USE_PREGENERATED |-> u, CURATED_RESOURCES |-> CuratedResources(l),
              categories |-> c, source |-> "curated", ollama_available |-> FALSE,
              readup_text |-> NoText, formatted_resources |-> <<>>, response |-> EmptyDict]

GenFrame ==
  UNCHANGED <<cache, now, calls, pc, req, locals, hist, dedup, sel, fan, single, op, keyed>>

\* main.py:373-380
PregeneratedLookup ==
  /\ gen.pc = "lookup"
  /\ IF gen.USE_PREGENERATED
     THEN \E pregenerated \in PregeneratedOutcomes :
            IF pregenerated.kind = "None"
            THEN gen' = [gen EXCEPT !.pc = "curate"]
            ELSE IF pregenerated.kind # "dict"
            THEN gen' = [gen EXCEPT !.pc = "except"]
            ELSE gen' = [gen EXCEPT !.pc = "curate",
                                    !.readup_text = Get(pregenerated.value, "readup", NoText),
                                    !.source = "pregenerated"]
     ELSE gen' = [gen EXCEPT !.pc = "curate"]
  /\ GenFrame

\* main.py:382-412
Curate ==
  /\ gen.pc = "curate"
  /\ gen' = [gen EXCEPT
               !.pc = "check",
               !.formatted_resources =
                  FormatResources(SelectedResources(gen.CURATED_RESOURCES, gen.categories),
                                  " to improve your skills.")]
  /\ GenFrame

\* main.py:415-420 and 438-445: quick_ollama_check answers, and without
\* Ollama the curated resources stay
OllamaCheck ==
  /\ gen.pc = "check"
  /\ \E ollama_ready \in BOOLEAN :
       IF ollama_ready /\ gen.formatted_resources # <<>>
       THEN gen' = [gen EXCEPT !.pc = "enhance", !.ollama_available = ollama_ready]
       ELSE gen' = [gen EXCEPT !.pc = "respond", !.ollama_available = ollama_ready,
                               !.source = IF gen.source # "pregenerated" THEN "curated"
                                          ELSE gen.source]
  /\ GenFrame

\* main.py:421-437: generate_resources_ollama returns or raises
Enhance ==
  /\ gen.pc = "enhance"
  /\ \E resources \in RagResults : \E ai \in AiResponses :
       LET ai_response == generate_resources_ollama(resources, ai)
       IN  IF ~ai_response.raised /\ ai_response.value.resources # <<>>
           THEN gen' = [gen EXCEPT !.pc = "respond",
                                   !.formatted_resources = ai_response.value.resources,
                                   !.readup_text = Or(gen.readup_text, ai_response.value.readup),
                                   !.source = "ollama"]
           ELSE gen' = [gen EXCEPT !.pc = "respond"]
  /\ GenFrame

\* main.py:447-455
Respond ==
  /\ gen.pc = "respond"
  /\ gen' = [gen EXCEPT
               !.pc = "done",
               !.response = [status |-> 200,
                             readup |-> Or(gen.readup_text, "Keep growing your UX skills!"),
                             resources |-> gen.formatted_resources,
                             source |-> gen.source,
                             ollama_available |-> gen.ollama_available,
                             pregenerated_available |-> gen.USE_PREGENERATED]]
  /\ GenFrame

\* main.py:457-506, except Exception
ExceptResponse ==
  /\ gen.pc = "except"
  /\ gen' = [gen EXCEPT
               !.pc = "done",
               !.response = [status |-> 200,
                             readup |-> "Keep growing your UX skills!",
                             resources |-> ExceptResources(gen.CURATED_RESOURCES, gen.categories),
                             source |-> "fallback",
                             ollama_available |-> FALSE,
                             pregenerated_available |-> gen.USE_PREGENERATED]]
  /\ GenFrame

NextGen == PregeneratedLookup \/ Curate \/ OllamaCheck \/ Enhance \/ Respond \/ ExceptResponse

SpecGen == InitGen /\ [][NextGen]_vars

\* ------------------------------------ _get_cache_key on its own (rag.py:53-61)
\* a category of the given name (a string of any characters)
Named(name, sc) == [name |-> name, score |-> sc, maxScore |-> 10]

\* category lists: none, one category, a name that is empty, names that hold
\* the separators ',' and ':', two categories in both orders of weakness, and
\* a third category that is not among the two weakest
KeyCategories ==
  { <<>>,
    <<Named(<<"A">>, 1)>>,
    <<Named(<<>>, 1)>>,
    <<Named(<<":">>, 1)>>,
    <<Named(<<"A", ",", "B">>, 1)>>,
    <<Named(<<"A">>, 1), Named(<<"B">>, 2)>>,
    <<Named(<<"A">>, 2), Named(<<"B">>, 1)>>,
    <<Named(<<"B">>, 1), Named(<<"C">>, 9), Named(<<"A">>, 2)>> }

\* the requests: a stage with or without the separator ':', a category list
\* and a top_k
KeyRequests ==
  { [stage |-> s, categories |-> c, top_k |-> k] :
      s \in { <<"J">>, <<"J", ":">> }, c \in KeyCategories, k \in {0, 2} }

InitKeys ==
  /\ InitRetriever /\ OthersIdle("keyed")
  /\ \E a, b \in KeyRequests :
       keyed = [a |-> a, b |-> b, key_a |-> <<>>, key_b |-> <<>>, done |-> FALSE]

\* rag.py:144, cache_key = self._get_cache_key(stage, categories, top_k), of
\* two calls
MakeKeys ==
  /\ ~keyed.done
  /\ keyed' = [keyed EXCEPT
                 !.key_a = _get_cache_key(keyed.a.stage, keyed.a.categories, keyed.a.top_k),
                 !.key_b = _get_cache_key(keyed.b.stage, keyed.b.categories, keyed.b.top_k),
                 !.done = TRUE]
  /\ UNCHANGED <<cache, now, calls, pc, req, locals, hist, dedup, sel, fan, single, op, gen>>

SpecKeys == InitKeys /\ [][MakeKeys]_vars

\* ================================================================ claims
Finished(t) == pc[t] = "done"

AllFailed(t) == \A i \in DOMAIN outs[t] : ~outs[t][i].ok
SomeFailed(t) == \E i \in DOMAIN outs[t] : ~outs[t][i].ok
SomeReturned(t) == \E i \in DOMAIN outs[t] : outs[t][i].ok

\* what the futures that returned gave, in submission order
Returned(t) == Flatten([i \in DOMAIN outs[t] |-> outs[t][i].res])

\* C1 Cache-hit idempotence (calls made one after the other): a call that
\* ends before the expiry of the entry held for its key when the previous call
\* with that key returned has the very list that previous call returned, and
\* has issued no document-store query, whatever the store would answer.
C1_CacheHitIdempotent ==
  \A t \in Threads :
    (Finished(t) /\ Key(t) \in DOMAIN hist /\ now < hist[Key(t)].expiry)
      => (results[t] = hist[Key(t)].results /\ nq[t] = 0)

\* a second call served a non-empty list from the cache
C1_Witness ==
  \E t \in Threads :
    /\ Finished(t) /\ Key(t) \in DOMAIN hist /\ now < hist[Key(t)].expiry
    /\ results[t] # <<>> /\ path[t] = "hit"

\* C2 TTL expiry (calls made one after the other): an entry is served only
\* while now < expiry; a call that reads its entry at now >= expiry (now =
\* expiry included) is not served from it, removes it, issues its fan-out
\* queries and ends with a new entry for the key, holding the list it returns
\* and a later expiry.
C2_TTLExpiry ==
  \A t \in Threads :
    /\ path[t] = "hit" => ~stale[t]
    /\ stale[t] =>
         /\ pc[t] \in {"del", "wait", "exit", "done"}
         /\ pc[t] \in {"wait", "exit"} => (Key(t) \notin DOMAIN cache /\ nq[t] > 0)
         /\ Finished(t) =>
              /\ path[t] = "miss"
              /\ nq[t] = Len(Queries(req[t].categories))
              /\ Len(outs[t]) = nq[t]
              /\ Key(t) \in DOMAIN cache
              /\ cache[Key(t)].results = results[t]
              /\ cache[Key(t)].expiry > hist[Key(t)].expiry

\* a call read its entry exactly at the expiry (the clock has not moved since)
\* and has recomputed and stored
C2_Witness ==
  \E t \in Threads :
    /\ Finished(t) /\ stale[t]
    /\ now = hist[Key(t)].expiry
    /\ results[t] # <<>>

\* C3 Total failure: a call whose fan-out queries all raised or timed out
\* does not raise, and the list it returns is empty.
C3_TotalFailure ==
  \A t \in Threads :
    (path[t] = "miss" /\ pc[t] \in {"done", "raised"} /\ AllFailed(t))
      => (Finished(t) /\ results[t] = <<>>)

\* all three queries of a call failed and the call returned
C3_Witness ==
  \E t \in Threads :
    /\ Finished(t) /\ path[t] = "miss" /\ AllFailed(t)
    /\ Len(outs[t]) = Weakest + 1
    /\ req[t].top_k > 0

\* C4 Partial failure: a call some of whose fan-out queries failed, whichever
\* they are, does not raise, and returns exactly the deduplicated,
\* relevance-sorted, top_k-truncated merge of what the other queries returned.
C4_PartialFailure ==
  \A t \in Threads :
    (path[t] = "miss" /\ pc[t] \in {"done", "raised"} /\ SomeFailed(t))
      => /\ Finished(t)
         /\ results[t] = MergeResults(Returned(t), req[t].top_k)
         /\ \A i \in DOMAIN outs[t] : \A r \in Range(outs[t][i].res) :
              \E u \in Range(unique_results[t]) : u.resource_id = r.resource_id

\* a query failed after an earlier one had returned, and the call returned
\* resources
C4_Witness ==
  \E t \in Threads :
    /\ Finished(t) /\ path[t] = "miss"
    /\ \E i, j \in DOMAIN outs[t] : i < j /\ outs[t][i].ok /\ ~outs[t][j].ok
    /\ results[t] # <<>>

\* C5 Atomic check-compute-store per key: no two calls with the same cache
\* key are in their fan-out computation at the same time.
C5_OneComputationPerKey ==
  \A t1, t2 \in Threads :
    (t1 # t2 /\ pc[t1] \in {"wait", "exit"} /\ pc[t2] \in {"wait", "exit"})
      => Key(t1) # Key(t2)

\* C6 Concurrent-call safety: no call raises from its cache accesses.
C6_NoCallRaises == \A t \in Threads : pc[t] # "raised"

FirstAt(chunks, id) ==
  CHOOSE i \in DOMAIN chunks :
    /\ chunks[i].metadata.resource_id = id
    /\ \A j \in 1..(i - 1) : chunks[j].metadata.resource_id # id

InputIds(chunks) == {chunks[i].metadata.resource_id : i \in DOMAIN chunks} \ {NoId}

\* C7 First-seen deduplication: every resource_id of the input has a record,
\* and a record's relevance_score is 1 - distance of the first chunk with its
\* resource_id, whatever the later chunks' distances.
C7_FirstSeen ==
  dedup.done =>
    /\ \A id \in InputIds(dedup.chunks) : \E r \in Range(dedup.out) : r.resource_id = id
    /\ \A r \in Range(dedup.out) :
         /\ r.resource_id \in InputIds(dedup.chunks)
         /\ r.relevance_score
              = One - dedup.chunks[FirstAt(dedup.chunks, r.resource_id)].distance

\* a later chunk of the same resource is closer than the first
C7_Witness ==
  /\ dedup.done
  /\ \E i, j \in DOMAIN dedup.chunks :
       /\ i < j
       /\ dedup.chunks[i].metadata.resource_id = dedup.chunks[j].metadata.resource_id
       /\ dedup.chunks[i].metadata.resource_id # NoId
       /\ dedup.chunks[j].distance < dedup.chunks[i].distance
  /\ dedup.out # <<>>

\* C8 Deduplication cardinality: exactly one record per distinct non-empty
\* resource_id of the input, in the order of first occurrence, and none for a
\* chunk whose resource_id is missing or empty.
C8_OnePerResource ==
  dedup.done =>
    /\ Len(dedup.out) = Cardinality(InputIds(dedup.chunks))
    /\ {dedup.out[i].resource_id : i \in DOMAIN dedup.out} = InputIds(dedup.chunks)
    /\ \A p, q \in DOMAIN dedup.out :
         p < q => FirstAt(dedup.chunks, dedup.out[p].resource_id)
                    < FirstAt(dedup.chunks, dedup.out[q].resource_id)

\* the input has a chunk without resource_id, a repeated resource and two
\* resources
C8_Witness ==
  /\ dedup.done
  /\ \E i \in DOMAIN dedup.chunks : dedup.chunks[i].metadata.resource_id = NoId
  /\ \E i, j \in DOMAIN dedup.chunks :
       i < j /\ dedup.chunks[i].metadata.resource_id = dedup.chunks[j].metadata.resource_id
             /\ dedup.chunks[i].metadata.resource_id # NoId
  /\ Len(dedup.out) = 1

PlaceIn(s, x) == CHOOSE k \in DOMAIN s : s[k] = x

\* C9 Ranking: the list returned on a miss is in non-increasing order of
\* relevance_score, strictly decreasing between distinct scores, and records
\* of equal score are in the order the deduplication emitted them.
C9_Ranking ==
  \A t \in Threads :
    (Finished(t) /\ path[t] = "miss") =>
      \A i, j \in DOMAIN results[t] :
        i < j =>
          /\ results[t][i].relevance_score >= results[t][j].relevance_score
          /\ results[t][i] \in Range(unique_results[t])
          /\ results[t][j] \in Range(unique_results[t])
          /\ results[t][i].relevance_score = results[t][j].relevance_score
               => PlaceIn(unique_results[t], results[t][i])
                    < PlaceIn(unique_results[t], results[t][j])

\* a returned list with two records of equal score, from a deduplication that
\* did not emit its records in order of score
C9_Witness ==
  \E t \in Threads :
    /\ Finished(t) /\ path[t] = "miss"
    /\ Len(results[t]) = 2
    /\ results[t][1].relevance_score = results[t][2].relevance_score
    /\ \E i, j \in DOMAIN unique_results[t] :
         i < j /\ unique_results[t][i].relevance_score < unique_results[t][j].relevance_score

\* C10 Result bound and uniqueness: a returned list, computed or cached, has
\* at most top_k records (top_k >= 0), each with a non-empty resource_id, no
\* two with the same.
C10_BoundedUnique ==
  \A t \in Threads :
    (Finished(t) /\ req[t].top_k >= 0) =>
      /\ Len(results[t]) <= req[t].top_k
      /\ \A i \in DOMAIN results[t] : results[t][i].resource_id # NoId
      /\ \A i, j \in DOMAIN results[t] :
           i # j => results[t][i].resource_id # results[t][j].resource_id

\* a resource came from two queries and the resources found were more than
\* top_k
C10_Witness ==
  \E t \in Threads :
    /\ Finished(t) /\ path[t] = "miss"
    /\ Len(all_resources[t]) > Len(unique_results[t])
    /\ Len(unique_results[t]) > req[t].top_k
    /\ Len(results[t]) = req[t].top_k /\ req[t].top_k > 0

\* the category filters of the category-scoped futures (all but the last,
\* stage-wide one)
Targets(futures) == [i \in 1..(Len(futures) - 1) |-> futures[i].category]

\* score / maxScore, 0 when maxScore is 0, compared as fractions
RatioBelow(a, b) ==
  LET num(c) == IF c.maxScore = 0 THEN 0 ELSE c.score
      den(c) == IF c.maxScore = 0 THEN 1 ELSE c.maxScore
  IN  num(a) * den(b) < num(b) * den(a)

\* position i of cs goes before position j: lower ratio, or equal ratio and
\* earlier in the list
WeakerAt(cs, i, j) ==
  \/ RatioBelow(cs[i], cs[j])
  \/ ~RatioBelow(cs[j], cs[i]) /\ i < j

DistinctRatios(cs) ==
  \A i, j \in DOMAIN cs : i # j => (RatioBelow(cs[i], cs[j]) \/ RatioBelow(cs[j], cs[i]))

Reorderings(cs) ==
  { [i \in DOMAIN cs |-> cs[f[i]]] :
      f \in {g \in [DOMAIN cs -> DOMAIN cs] : \A i, j \in DOMAIN cs : i # j => g[i] # g[j]} }

\* C11 Weakest-pair selection: the k-th category query targets the category
\* that has exactly k-1 categories before it in the order by ratio and then
\* by list position, for k up to min(2, n); when all ratios are distinct every
\* permutation of the list has the same targeted pair.
C11_WeakestPair ==
  sel.done =>
    LET cs == sel.categories
        tg == Targets(sel.futures)
    IN  /\ Len(tg) = IF Len(cs) < 2 THEN Len(cs) ELSE 2
        /\ \A k \in DOMAIN tg :
             \E i \in DOMAIN cs :
               /\ tg[k] = cs[i].name
               /\ Cardinality({j \in DOMAIN cs : j # i /\ WeakerAt(cs, j, i)}) = k - 1
        /\ DistinctRatios(cs) =>
             \A q \in Reorderings(cs) : Range(Targets(Futures(q))) = Range(tg)

\* three categories, the weakest last in the list, two of equal ratio of
\* which the earlier is targeted, with a higher score than the one left out
C11_Witness ==
  /\ sel.done
  /\ Len(sel.categories) = 3
  /\ \E i, j \in DOMAIN sel.categories :
       /\ i < j
       /\ ~RatioBelow(sel.categories[i], sel.categories[j])
       /\ ~RatioBelow(sel.categories[j], sel.categories[i])
       /\ Targets(sel.futures)[2] = sel.categories[i].name
  /\ Targets(sel.futures)[1] = sel.categories[3].name
  /\ \E i, j \in DOMAIN sel.categories :
       /\ sel.categories[i].name \in Range(Targets(sel.futures))
       /\ sel.categories[j].name \notin Range(Targets(sel.futures))
       /\ sel.categories[i].score > sel.categories[j].score

\* C13 Fan-out query set: for n categories the futures are min(2, n) category
\* queries, each with the filter category = the name of a category of the list
\* and top_k = 3, followed by exactly one query without filter and top_k = 3;
\* for an empty list the stage-wide query alone; never more than 3 futures.
C13_FanOutQuerySet ==
  sel.done =>
    LET cs == sel.categories
        fs == sel.futures
        m == IF Len(cs) < 2 THEN Len(cs) ELSE 2
    IN  /\ Len(fs) = m + 1
        /\ Len(fs) <= 3
        /\ \A i \in 1..m :
             /\ \E j \in DOMAIN cs : Where(fs[i].category) = [category |-> cs[j].name]
             /\ fs[i].top_k = 3
        /\ \A i, j \in 1..m : i # j => fs[i].category # fs[j].category
        /\ Where(fs[m + 1].category) = EmptyDict
        /\ fs[m + 1].top_k = 3
        /\ cs = <<>> => (Len(fs) = 1 /\ fs[1].category = NoCategory)

\* a list of three categories got two category queries and the stage query
C13_Witness ==
  /\ sel.done /\ Len(sel.categories) = 3 /\ Len(sel.futures) = 3
  /\ sel.futures[1].category # NoCategory /\ sel.futures[3].category = NoCategory

\* the same stage, the same top_k and the same set of two weakest names
SameNormalForm(a, b) ==
  /\ a.stage = b.stage
  /\ a.top_k = b.top_k
  /\ Range(weakest_cats(a.categories)) = Range(weakest_cats(b.categories))

\* C12 Cache-key normalization (calls made one after the other): a call whose
\* request has the stage, the top_k and the set of two weakest names of the
\* request of an earlier call has that call's cache key, and, ending before
\* the expiry of the entry held when the earlier call returned, returns the
\* list the earlier call returned without querying the store.
C12_KeyNormalization ==
  \A t \in Threads :
    \A k \in DOMAIN hist :
      (pc[t] # "idle" /\ SameNormalForm(req[t], hist[k].req)) =>
        /\ Key(t) = k
        /\ (Finished(t) /\ now < hist[k].expiry) =>
             (path[t] = "hit" /\ results[t] = hist[k].results /\ nq[t] = 0)

\* a call was served the list stored for a request with another category
\* list, other scores and the two weakest in the other order
C12_Witness ==
  \E t \in Threads :
    /\ Finished(t) /\ path[t] = "hit" /\ results[t] # <<>>
    /\ Key(t) \in DOMAIN hist
    /\ hist[Key(t)].req.categories # req[t].categories
    /\ weakest_cats(hist[Key(t)].req.categories) # weakest_cats(req[t].categories)
    /\ Names(req[t].categories) # SortedNames(Names(req[t].categories))

\* C14 Per-query timeout bounds the wait: a call that has seen each of its
\* futures return, raise or time out can go on to make and return its list
\* at once, whether or not a query it gave up on is still running.
C14_TimeoutBoundsWait ==
  \A t \in Threads : pc[t] = "exit" => ENABLED Store(t)

\* what the store's answers give when taken query by query in the order of
\* submission
OfAnswers(f) ==
  MergeResults(Flatten([i \in DOMAIN f.answers |->
                          semantic_search_resources(f.answers[i], QueryTopK)]),
               f.top_k)

\* C15 Completion-order independence: the list a fan-out returns is
\* determined by the answers of the store to its queries alone (the records,
\* their scores and their order), in whatever order the workers ended.
C15_CompletionOrderIndependent == fan.done => fan.out = OfAnswers(fan)

\* the stage-wide query ended first and the first category query last, two
\* queries found one resource at different distances, and it was returned
C15_Witness ==
  /\ fan.done
  /\ fan.completed = <<3, 2, 1>>
  /\ \E i, j \in DOMAIN fan.answers :
       \E c \in Range(fan.answers[i]) : \E d \in Range(fan.answers[j]) :
         /\ i < j
         /\ ResourceIdOf(c) = ResourceIdOf(d) /\ ResourceIdOf(c) # NoId
         /\ DistanceOf(c) # DistanceOf(d)
         /\ \E r \in Range(fan.out) : r.resource_id = ResourceIdOf(c)

\* C16 Singleton facade: at most one RAGRetriever is ever made, and every
\* get_rag_retriever call returns the same one.
C16_Singleton ==
  /\ single.created <= 1
  /\ \A t, u \in Threads :
       (single.got[t] # None /\ single.got[u] # None) => single.got[t] = single.got[u]

\* what the pair queries of a retrieve_skill_relationships call found, in the
\* order of the queries (top_k=1: at most one resource each)
PairFound(o) ==
  Flatten([i \in DOMAIN o.answers |-> semantic_search_resources(o.answers[i], 1)])

\* C17 retrieve_skill_relationships: one query per (weak, strong) pair, and
\* the list returned has one record for each distinct resource_id the queries
\* found, in first-seen order, at most 5; it is not empty when a query found a
\* resource.
C17_SkillRelationships ==
  op.name = "retrieve_skill_relationships" =>
    /\ op.nq = Len(op.args.weak_cats) * Len(op.args.strong_cats)
    /\ op.out = Take(unique_results_of(PairFound(op)), 5)
    /\ PairFound(op) # <<>> => op.out # <<>>

\* the engagement the store holds for a resource of the answers
EngagementOf(o, id) ==
  EngagementKey(CHOOSE c \in UNION {Range(o.answers[i]) : i \in DOMAIN o.answers} :
                  ResourceIdOf(c) = id)

\* C18 retrieve_social_media_resources: the list returned has at most limit
\* records and is in non-increasing order of the engagement of its resources.
C18_RankedByEngagement ==
  op.name = "retrieve_social_media_resources" =>
    /\ Len(op.out) <= op.args.limit
    /\ \A i, j \in DOMAIN op.out :
         i < j => EngagementOf(op, op.out[i].resource_id)
                    >= EngagementOf(op, op.out[j].resource_id)

\* C19 generate_learning_path: queries and modules for at most 2 categories,
\* and every module has the two steps Foundation, Advanced Application in
\* that order.
C19_LearningPathTwoWeakest ==
  op.name = "generate_learning_path" =>
    /\ Len(op.out.modules) <= 2
    /\ op.nq <= 2 * 2
    /\ \A i \in DOMAIN op.out.modules :
         /\ Len(op.out.modules[i].steps) = 2
         /\ op.out.modules[i].steps[1].level = "Foundation"
         /\ op.out.modules[i].steps[2].level = "Advanced Application"

\* the store queries a derived call has to make for its arguments
DerivedQueries(o) ==
  CASE o.name = "generate_learning_path" -> 2 * Len(o.args.weak_categories)
    [] o.name = "retrieve_learning_paths" -> Len(o.args.categories)
    [] o.name = "retrieve_stage_competencies" -> 1
    [] o.name = "retrieve_skill_relationships" ->
         Len(o.args.weak_cats) * Len(o.args.strong_cats)
    [] o.name = "retrieve_social_media_resources" -> Len(o.args.resource_types)
    [] OTHER -> 0

\* C20 Derived operations bypass the cache: every call of a derived operation
\* leaves the cache exactly as it was, entries and expiries, and has made all
\* the store queries of its arguments, whatever the calls before it.
C20_DerivedBypassCache ==
  [][cache' = cache /\ op'.nq = DerivedQueries(op')]_vars

\* a derived call was made after others on a retriever whose cache holds an
\* entry with resources, and it queried the store and returned resources
C20_Witness ==
  /\ calls >= 2
  /\ \E k \in DOMAIN cache : cache[k].results # <<>>
  /\ op.name = "retrieve_stage_competencies" /\ op.nq = 1 /\ op.out # <<>>

\* ------------------------------------------------------------------ C21
\* the values the endpoint's test accepts for "source"
\* (tests/test_api_endpoints.py:60)
valid_sources == {"rag", "rag+pregenerated", "rag+ai", "curated", "pregenerated", "fallback"}

\* C21: the source field of every 200 response of POST
\* /api/generate-resources is one of rag, rag+pregenerated, rag+ai, curated,
\* pregenerated, fallback, whatever the pre-generated lookup, the Ollama check
\* and the generation did.
C21_SourceIsValid ==
  (gen.pc = "done" /\ gen.response.status = 200) => gen.response.source \in valid_sources

\* ------------------------------------------------------------------ C22
\* C22: every response of POST /api/generate-resources carries at least one
\* resource, for every category list and every outcome of the pre-generated
\* lookup, the Ollama check and the generation, exceptions included.
C22_ResourcesNonEmpty ==
  gen.pc = "done" => Len(gen.response.resources) > 0

\* the request's category has no resource in the table, the table's first key
\* has none either, and the response was made on the normal path
C22_Witness ==
  /\ gen.pc = "done"
  /\ gen.response.source # "fallback"
  /\ gen.categories # <<>>
  /\ SelectedResources(gen.CURATED_RESOURCES, gen.categories)
       # FirstKeyFallback(gen.CURATED_RESOURCES,
                          CollectCurated(gen.CURATED_RESOURCES,
                                         Slice(sorted_categories(gen.categories), 2)))

\* ------------------------------------------------------------------ C23
\* what the queries of a fan-out returned, put one after the other in the
\* given order of the queries
InOrder(f, order) ==
  Flatten([k \in DOMAIN order |->
            semantic_search_resources(f.answers[order[k]], QueryTopK)])

SubmissionOrder(f) == [i \in DOMAIN f.answers |-> i]

\* C23 as stated: the per-query result lists are concatenated, before
\* deduplication, in the order in which the queries completed.
C23_MergeInCompletionOrder ==
  fan.done => fan.all_resources = InOrder(fan, fan.completed)

\* C23 as amended: the per-query result lists are concatenated, before
\* deduplication, in the order in which the queries were submitted, in
\* whatever order they completed.
C23_MergeInSubmissionOrder ==
  fan.done => fan.all_resources = InOrder(fan, SubmissionOrder(fan))

\* the queries completed in another order than they were submitted in, and
\* taking their results in that order would have given another list
C23_Witness ==
  /\ fan.done
  /\ fan.completed # SubmissionOrder(fan)
  /\ InOrder(fan, fan.completed) # InOrder(fan, SubmissionOrder(fan))

\* ------------------------------------------------------------------ C29
\* the queries of the fan-out, in the order of submission, whose result
\* holds a record of the resource
QueriesWith(f, id) ==
  { i \in DOMAIN f.answers :
      \E r \in Range(semantic_search_resources(f.answers[i], QueryTopK)) : r.resource_id = id }

Earliest(S) == CHOOSE i \in S : \A j \in S : i <= j

\* C29 Cross-query duplicates: every record the fan-out returns is the record
\* of its resource from the earliest-submitted query that returned the
\* resource, whichever query completed first and whichever record has the
\* higher relevance score.
C29_EarliestSubmittedWins ==
  fan.done =>
    \A r \in Range(fan.out) :
      /\ QueriesWith(fan, r.resource_id) # {}
      /\ r \in Range(semantic_search_resources(
                       fan.answers[Earliest(QueriesWith(fan, r.resource_id))], QueryTopK))

\* a returned resource was found by two queries, the later-submitted of which
\* completed first and gave it the higher score; the lower score was kept
C29_Witness ==
  /\ fan.done
  /\ \E r \in Range(fan.out) : \E i, j \in QueriesWith(fan, r.resource_id) :
       /\ i = Earliest(QueriesWith(fan, r.resource_id))
       /\ i < j
       /\ \E k, l \in DOMAIN fan.completed :
            k < l /\ fan.completed[k] = j /\ fan.completed[l] = i
       /\ \E q \in Range(semantic_search_resources(fan.answers[j], QueryTopK)) :
            /\ q.resource_id = r.resource_id
            /\ q.relevance_score > r.relevance_score

\* ------------------------------------------------------------------ C24
\* the keys whose entry the step adds, replaces or removes
Touched == { k \in DOMAIN cache \cup DOMAIN cache' :
               k \notin DOMAIN cache \/ k \notin DOMAIN cache' \/ cache'[k] # cache[k] }

\* C24 Cache frame and lazy eviction: a step changes the cache only at the
\* key of a call that is deleting or storing its own entry, and an entry is
\* removed only by a call with its own key that has read it at or after its
\* expiry (the passing of time removes nothing).
C24_CacheFrame ==
  [][ /\ \A k \in Touched :
           \E t \in Threads : pc[t] \in {"del", "exit"} /\ Key(t) = k
      /\ \A k \in DOMAIN cache \ DOMAIN cache' :
           \E t \in Threads : pc[t] = "del" /\ Key(t) = k /\ stale[t]
                              /\ now >= cache[k].expiry ]_vars

\* the entry of one key has expired and is still stored, after a call with
\* another key has stored its own entry
C24_Witness ==
  \E k1, k2 \in DOMAIN cache :
    /\ k1 # k2
    /\ cache[k1].expiry <= now
    /\ cache[k2].expiry > cache[k1].expiry
    /\ \E t \in Threads : pc[t] = "done" /\ path[t] = "miss" /\ Key(t) = k2

\* ------------------------------------------------------------------ C28
\* C28 A cache hit leaves the cache unchanged: the step that serves an entry
\* and the steps up to the call's return change neither its results nor its
\* expiry; an entry is served only before its expiry and as stored; and the
\* expiry of an entry is set when it is stored, to the time the fan-out
\* finished plus the TTL.
C28_HitLeavesCache ==
  [][ /\ \A t \in Threads :
           /\ (path[t] = "hit" \/ path'[t] = "hit") => cache' = cache
           /\ (path[t] # "hit" /\ path'[t] = "hit")
                => /\ now < cache[Key(t)].expiry
                   /\ results'[t] = cache[Key(t)].results
      /\ \A k \in DOMAIN cache' :
           (k \notin DOMAIN cache \/ cache'[k] # cache[k])
             => cache'[k].expiry = now + cache_ttl ]_vars

\* a call was served a non-empty list from the cache, after an earlier call
\* for the key had returned and some time after the entry was stored
C28_Witness ==
  \E t \in Threads :
    /\ pc[t] = "done" /\ path[t] = "hit"
    /\ now + cache_ttl > cache[Key(t)].expiry
    /\ results[t] # <<>>
    /\ Key(t) \in DOMAIN hist
    /\ cache[Key(t)] = [results |-> results[t], expiry |-> hist[Key(t)].expiry]

\* ------------------------------------------------------------------ C27
\* C27 Failed computations are cached: a call that computed its list has
\* stored exactly that list under its key, the empty list of a fan-out whose
\* queries all failed included; and a call that ends before the expiry of an
\* empty entry returns the empty list and issues no query, although the store
\* would answer.
C27_FailuresCached ==
  \A t \in Threads :
    Finished(t) =>
      /\ path[t] = "miss"
           => /\ Key(t) \in DOMAIN cache
              /\ cache[Key(t)].results = results[t]
              /\ AllFailed(t) => cache[Key(t)].results = <<>>
      /\ (/\ Key(t) \in DOMAIN hist
          /\ hist[Key(t)].results = <<>>
          /\ now < hist[Key(t)].expiry)
           => (results[t] = <<>> /\ nq[t] = 0)

\* a call that asked for resources was served the empty list a failed
\* fan-out had left in the cache
C27_Witness ==
  \E t \in Threads :
    /\ Finished(t) /\ path[t] = "hit"
    /\ req[t].top_k > 0
    /\ results[t] = <<>> /\ nq[t] = 0
    /\ Key(t) \in DOMAIN hist /\ hist[Key(t)].results = <<>>

\* ------------------------------------------------------------------ C30
\* what the queries that did not time out returned, in submission order
InTime(f) ==
  Flatten([i \in DOMAIN f.answers |->
            IF i \in f.timed_out THEN <<>>
            ELSE semantic_search_resources(f.answers[i], QueryTopK)])

\* C30 Late results are never used: the list a fan-out returns, and the list
\* of the cache entry stored for it, are made of what the queries that did
\* not time out returned, although every timed-out query has completed by
\* then.
C30_LateResultsUnused ==
  fan.done =>
    /\ fan.out = MergeResults(InTime(fan), fan.top_k)
    /\ DOMAIN cache # {}
    /\ \A k \in DOMAIN cache : cache[k].results = MergeResults(InTime(fan), fan.top_k)

\* a query timed out and completed afterwards, and with its results the list
\* would have been another
C30_Witness ==
  /\ fan.done
  /\ fan.timed_out # {}
  /\ fan.timed_out \subseteq Range(fan.completed)
  /\ fan.out # OfAnswers(fan)
  /\ fan.out # <<>>

\* ------------------------------------------------------------------ C26
\* what a request asks for: its stage, its top_k and the names of its two
\* weakest categories
Identity(r) ==
  [stage |-> r.stage, top_k |-> r.top_k, names |-> Range(weakest_cats(r.categories))]

\* C26 Cache-key injectivity: two requests get the same cache key only if
\* they have the same stage, the same top_k and the same set of weakest
\* category names, also when stage or names hold ':' or ',' and when there are
\* fewer than two categories.
C26_KeyInjective ==
  (keyed.done /\ keyed.key_a = keyed.key_b) => Identity(keyed.a) = Identity(keyed.b)

\* ------------------------------------------------------------------ C25
\* the lists an uncached computation of the request can return: one for each
\* choice of what the store answers to its queries (a query that fails giving
\* nothing)
Uncached(r) ==
  { MergeResults(Flatten([i \in DOMAIN a |->
                           semantic_search_resources(a[i], Futures(r.categories)[i].top_k)]),
                 r.top_k) :
      a \in FanChoices(r.categories) }

\* C25 Cache transparency: the list a call is served from the cache is the
\* list an uncached computation of its own request returns (for the store's
\* answers, whatever they are), also when the entry was computed for another
\* request with the same key.
C25_CacheTransparent ==
  \A t \in Threads :
    (Finished(t) /\ path[t] = "hit") => results[t] \in Uncached(req[t])

====
